---- MODULE Spec2Model ----
(***************************************************************************)
(* Rules and combat engine of imperial-battleground: the immutable game    *)
(* state (types.ts, game-state.ts), the movement evaluator (rules.ts),     *)
(* the combat resolver and damage distributor (combat.ts), the action      *)
(* functions (actions.ts) and the input handler that drives them           *)
(* (main.ts).  Every action function is an operator from a GameState       *)
(* record to a GameState record (attackSquare: to the set of results its   *)
(* dice can produce).  Spec calls them with arguments drawn from small     *)
(* input sets, unvalidated; SpecGame calls them as handleAction does, on   *)
(* the destinations and targets it offers for the selected units.          *)
(***************************************************************************)
EXTENDS Integers, Sequences, FiniteSets, TLC

VARIABLES state, last, steps

vars == <<state, last, steps>>

\* ------------------------------------------------------------------ bounds
\* number of action calls explored from the initial state
MaxSteps == 2

\* inputs of the damage distributor: hit count, defender count and level
MaxHits == 4
MaxDefenders == 3
MaxLevel == 2

\* ------------------------------------------------------- program constants
GRID_COLS == 3
GRID_ROWS == 4
MAX_STACK_SLOTS == 6
MAX_UNITS_PER_SQUARE == 3
DEFAULT_AP == 6
BASE_THRESHOLD == 10
MIN_THRESHOLD == 2
MAX_THRESHOLD == 36
D40 == 40
ARTILLERY_VULNERABILITY_THRESHOLD == 4
ARTILLERY_VULNERABILITY_DAMAGE == 1

UNIT_STACK_COST(type) ==
  CASE type = "infantry" -> 1
    [] type = "cavalry" -> 2
    [] type = "artillery" -> 2

ARTILLERY_THRESHOLDS(distance) ==
  CASE distance = 1 -> 6
    [] distance = 2 -> 20
    [] distance = 3 -> 12
    [] OTHER -> 0

BONUS_VALUES(b) ==
  CASE b = "combined-arms-2" -> 6
    [] b = "combined-arms-3" -> 10
    [] b = "flanking-2" -> 10
    [] b = "flanking-3" -> 20
    [] b = "cavalry-charge" -> 6

\* ----------------------------------------------------------------- helpers
Abs(x) == IF x < 0 THEN -x ELSE x
Min(a, b) == IF a < b THEN a ELSE b
Max(a, b) == IF a > b THEN a ELSE b

Pos(c, r) == [col |-> c, row |-> r]

\* the squares of the grid: 4 rows of 3 columns
Squares == {Pos(c, r) : c \in 0..(GRID_COLS - 1), r \in 0..(GRID_ROWS - 1)}

Range(s) == {s[i] : i \in 1..Len(s)}

\* reduce((sum, u) => sum + u.level, 0)
RECURSIVE SumLevels(_)
SumLevels(units) ==
  IF units = <<>> THEN 0 ELSE Head(units).level + SumLevels(Tail(units))

\* null for selectedSquare, and for winner
NoSquare == [col |-> -1, row |-> -1]
NoWinner == 0

\* ------------------------------------------------------------ game-state.ts
\* the id `${owner}-${type}-${++nextId}` is modelled by its counter value
createUnit(type, owner, level, n) ==
  [id |-> n, type |-> type, owner |-> owner, level |-> level,
   hasMoved |-> FALSE, hasAttacked |-> FALSE, movedSquares |-> 0]

createGrid == [p \in Squares |-> <<>>]

\* the scenario army both reserves are seeded from
Army == << [type |-> "infantry", level |-> 1],
           [type |-> "cavalry", level |-> 2] >>

\* a scenario army with artillery in the place of the cavalry
ArtilleryArmy == << [type |-> "infantry", level |-> 1],
                    [type |-> "artillery", level |-> 1] >>

\* createArmy numbering the units of every army from 1
createArmy_restartingIds(owner, config, firstId) ==
  [i \in 1..Len(config) |-> createUnit(config[i].type, owner, config[i].level, i)]

createArmy(owner, config, firstId) ==
  [i \in 1..Len(config) |->
     createUnit(config[i].type, owner, config[i].level, firstId + i)]

\* the absent scenario argument of createInitialState
NoScenario == << [type |-> "none", level |-> 0] >>

createInitialState(army) ==
  [grid |-> createGrid,
   p1Reserve |-> IF army # NoScenario THEN createArmy(1, army, 0) ELSE <<>>,
   p2Reserve |-> IF army # NoScenario THEN createArmy(2, army, Len(army)) ELSE <<>>,
   currentPlayer |-> 1,
   actionPoints |-> DEFAULT_AP,
   maxActionPoints |-> DEFAULT_AP,
   selectedSquare |-> NoSquare,
   phase |-> IF army # NoScenario THEN "playing" ELSE "scenario-select",
   turnNumber |-> 1,
   winner |-> NoWinner]

\* getSquare returns a square exactly for the positions of the grid
isOnGrid(pos) == pos \in Squares

getReserve(s, player) == IF player = 1 THEN s.p1Reserve ELSE s.p2Reserve

getHomeRow(player) == IF player = 1 THEN 0 ELSE 3

\* ----------------------------------------------------------------- rules.ts
isInBounds(pos) ==
  pos.col >= 0 /\ pos.col < GRID_COLS /\ pos.row >= 0 /\ pos.row < GRID_ROWS

RECURSIVE stackUsed(_)
stackUsed(units) ==
  IF units = <<>> THEN 0
  ELSE UNIT_STACK_COST(Head(units).type) + stackUsed(Tail(units))

canFitInSquare(s, pos, unit) ==
  /\ isOnGrid(pos)
  /\ stackUsed(s.grid[pos]) + UNIT_STACK_COST(unit.type) <= MAX_STACK_SLOTS

ORTHOGONAL == {Pos(0, -1), Pos(0, 1), Pos(-1, 0), Pos(1, 0)}

Add(p, d) == Pos(p.col + d.col, p.row + d.row)

\* the destinations of getValidMoves, as a set (the list holds no duplicates)
getValidMoves(s, unit, from) ==
  IF unit.hasMoved THEN {}
  ELSE IF unit.type = "artillery" THEN
    {to \in {Add(from, dir) : dir \in ORTHOGONAL} :
       isInBounds(to) /\ to.row = getHomeRow(unit.owner) /\ canFitInSquare(s, to, unit)}
  ELSE IF unit.type = "infantry" THEN
    {to \in {Add(from, dir) : dir \in ORTHOGONAL} :
       isInBounds(to) /\ canFitInSquare(s, to, unit)}
  ELSE IF unit.type = "cavalry" THEN
    UNION {
      LET step1 == Add(from, dir)
          straight ==
            IF isInBounds(step1) /\ canFitInSquare(s, step1, unit)
            THEN {step1} \cup
                 (IF isInBounds(Add(step1, dir)) /\ canFitInSquare(s, Add(step1, dir), unit)
                  THEN {Add(step1, dir)} ELSE {})
            ELSE {}
          lshape ==
            IF isInBounds(step1)
            THEN {step2 \in {Add(step1, dir2) :
                     dir2 \in {d \in ORTHOGONAL :
                                 /\ ~(d.col = -dir.col /\ d.row = -dir.row)
                                 /\ ~(d.col = dir.col /\ d.row = dir.row)}} :
                    /\ isInBounds(step2)
                    /\ canFitInSquare(s, step2, unit)
                    /\ ~(step2.col = from.col /\ step2.row = from.row)}
            ELSE {}
      IN straight \cup lshape
      : dir \in ORTHOGONAL }
  ELSE {}

canDeploy(s, player, target) ==
  /\ target.row = getHomeRow(player)
  /\ isInBounds(target)
  /\ stackUsed(s.grid[target]) < MAX_STACK_SLOTS

\* the destinations of getValidGroupMoves for units sharing the square from:
\* at least 2 units, none moved, none artillery; one orthogonal step onto a
\* square that is empty or friendly with room for the whole group
getValidGroupMoves(s, units, from) ==
  IF Len(units) < 2 THEN {}
  ELSE IF \E i \in 1..Len(units) : units[i].hasMoved \/ units[i].type = "artillery" THEN {}
  ELSE {to \in {Add(from, dir) : dir \in ORTHOGONAL} :
          /\ isInBounds(to)
          /\ \A i \in 1..Len(s.grid[to]) : s.grid[to][i].owner = units[1].owner
          /\ Len(s.grid[to]) + Len(units) <= MAX_UNITS_PER_SQUARE}

\* --------------------------------------------------------------- actions.ts
addUnitToSquare(s, pos, unit) ==
  [s EXCEPT !.grid =
     [p \in Squares |->
        IF p.row = pos.row /\ p.col = pos.col THEN Append(s.grid[p], unit)
        ELSE s.grid[p]]]

removeUnitFromSquare(s, pos, unitId) ==
  [s EXCEPT !.grid =
     [p \in Squares |->
        IF p.row = pos.row /\ p.col = pos.col
        THEN SelectSeq(s.grid[p], LAMBDA u : u.id # unitId)
        ELSE s.grid[p]]]

\* reserve.find(u => u.id === unitId): the first unit of that id
FindUnit(units, unitId) ==
  LET idx == {i \in 1..Len(units) : units[i].id = unitId}
  IN units[CHOOSE i \in idx : \A j \in idx : i <= j]

HasUnit(units, unitId) == \E i \in 1..Len(units) : units[i].id = unitId

\* deployUnit without its action point guard
deployUnit_ignoringActionPoints(s, unitId, target) ==
  LET reserve == getReserve(s, s.currentPlayer) IN
    IF ~HasUnit(reserve, unitId) THEN s
    ELSE IF target.row # getHomeRow(s.currentPlayer) THEN s
    ELSE
      LET unit == FindUnit(reserve, unitId)
          deployed == [unit EXCEPT !.hasMoved = TRUE, !.movedSquares = 0]
          newState == addUnitToSquare(s, target, deployed)
          newReserve == SelectSeq(reserve, LAMBDA u : u.id # unitId)
          newState2 == IF s.currentPlayer = 1
                       THEN [newState EXCEPT !.p1Reserve = newReserve]
                       ELSE [newState EXCEPT !.p2Reserve = newReserve]
      IN [newState2 EXCEPT !.actionPoints = s.actionPoints - 1]

\* deployUnit leaving the unit's flags as they were in the reserve
deployUnit_readyToMove(s, unitId, target) ==
  IF s.actionPoints <= 0 THEN s
  ELSE LET reserve == getReserve(s, s.currentPlayer) IN
    IF ~HasUnit(reserve, unitId) THEN s
    ELSE IF target.row # getHomeRow(s.currentPlayer) THEN s
    ELSE
      LET unit == FindUnit(reserve, unitId)
          newState == addUnitToSquare(s, target, unit)
          newReserve == SelectSeq(reserve, LAMBDA u : u.id # unitId)
          newState2 == IF s.currentPlayer = 1
                       THEN [newState EXCEPT !.p1Reserve = newReserve]
                       ELSE [newState EXCEPT !.p2Reserve = newReserve]
      IN [newState2 EXCEPT !.actionPoints = s.actionPoints - 1]

deployUnit(s, unitId, target) ==
  IF s.actionPoints <= 0 THEN s
  ELSE LET reserve == getReserve(s, s.currentPlayer) IN
    IF ~HasUnit(reserve, unitId) THEN s
    ELSE IF target.row # getHomeRow(s.currentPlayer) THEN s
    ELSE
      LET unit == FindUnit(reserve, unitId)
          deployed == [unit EXCEPT !.hasMoved = TRUE, !.movedSquares = 0]
          newState == addUnitToSquare(s, target, deployed)
          newReserve == SelectSeq(reserve, LAMBDA u : u.id # unitId)
          newState2 == IF s.currentPlayer = 1
                       THEN [newState EXCEPT !.p1Reserve = newReserve]
                       ELSE [newState EXCEPT !.p2Reserve = newReserve]
      IN [newState2 EXCEPT !.actionPoints = s.actionPoints - 1]

\* moveUnit without its action point guard
moveUnit_ignoringActionPoints(s, unitId, from, to) ==
  IF ~isOnGrid(from) THEN s
  ELSE IF ~HasUnit(s.grid[from], unitId) THEN s
  ELSE
    LET unit == FindUnit(s.grid[from], unitId)
        distance == Abs(to.col - from.col) + Abs(to.row - from.row)
        movedUnit == [unit EXCEPT !.hasMoved = TRUE, !.movedSquares = distance]
        newState == addUnitToSquare(removeUnitFromSquare(s, from, unitId), to, movedUnit)
    IN [newState EXCEPT !.actionPoints = s.actionPoints - 1]

\* moveUnit recording one square for every move
moveUnit_oneSquare(s, unitId, from, to) ==
  IF s.actionPoints <= 0 THEN s
  ELSE IF ~isOnGrid(from) THEN s
  ELSE IF ~HasUnit(s.grid[from], unitId) THEN s
  ELSE
    LET unit == FindUnit(s.grid[from], unitId)
        movedUnit == [unit EXCEPT !.hasMoved = TRUE, !.movedSquares = 1]
        newState == addUnitToSquare(removeUnitFromSquare(s, from, unitId), to, movedUnit)
    IN [newState EXCEPT !.actionPoints = s.actionPoints - 1]

moveUnit(s, unitId, from, to) ==
  IF s.actionPoints <= 0 THEN s
  ELSE IF ~isOnGrid(from) THEN s
  ELSE IF ~HasUnit(s.grid[from], unitId) THEN s
  ELSE
    LET unit == FindUnit(s.grid[from], unitId)
        distance == Abs(to.col - from.col) + Abs(to.row - from.row)
        movedUnit == [unit EXCEPT !.hasMoved = TRUE, !.movedSquares = distance]
        newState == addUnitToSquare(removeUnitFromSquare(s, from, unitId), to, movedUnit)
    IN [newState EXCEPT !.actionPoints = s.actionPoints - 1]

\* the loop of moveUnits over the units found, in the order of unitIds
RECURSIVE moveEach(_, _, _, _, _)
moveEach(s, units, from, to, distance) ==
  IF units = <<>> THEN s
  ELSE
    LET unit == Head(units)
        movedUnit == [unit EXCEPT !.hasMoved = TRUE, !.movedSquares = distance]
    IN moveEach(addUnitToSquare(removeUnitFromSquare(s, from, unit.id), to, movedUnit),
                Tail(units), from, to, distance)

moveUnits(s, unitIds, from, to) ==
  IF s.actionPoints <= 0 THEN s
  ELSE IF Len(unitIds) = 0 THEN s
  ELSE IF ~isOnGrid(from) THEN s
  ELSE IF \E i \in 1..Len(unitIds) : ~HasUnit(s.grid[from], unitIds[i]) THEN s
  ELSE
    LET units == [i \in 1..Len(unitIds) |-> FindUnit(s.grid[from], unitIds[i])]
        distance == Abs(to.col - from.col) + Abs(to.row - from.row)
        newState == moveEach(s, units, from, to, distance)
    IN [newState EXCEPT !.actionPoints = s.actionPoints - 1]

\* resetUnit clearing the flags of both players' units
resetUnit_bothPlayers(u, player) ==
  [u EXCEPT !.hasMoved = FALSE, !.hasAttacked = FALSE, !.movedSquares = 0]

resetUnit(u, player) ==
  IF u.owner = player
  THEN [u EXCEPT !.hasMoved = FALSE, !.hasAttacked = FALSE, !.movedSquares = 0]
  ELSE u

resetPlayerUnits(s, player) ==
  [s EXCEPT !.grid =
     [p \in Squares |-> [i \in 1..Len(s.grid[p]) |-> resetUnit(s.grid[p][i], player)]]]

\* endTurn leaving actionPoints as the outgoing player left them
endTurn_keepingActionPoints(s) ==
  LET nextPlayer == IF s.currentPlayer = 1 THEN 2 ELSE 1
      nextTurn == IF nextPlayer = 1 THEN s.turnNumber + 1 ELSE s.turnNumber
      newState == resetPlayerUnits(s, nextPlayer)
  IN [newState EXCEPT !.currentPlayer = nextPlayer,
                      !.selectedSquare = NoSquare,
                      !.phase = "handoff",
                      !.turnNumber = nextTurn]

\* endTurn counting a turn at every change of player
endTurn_countingEveryTurn(s) ==
  LET nextPlayer == IF s.currentPlayer = 1 THEN 2 ELSE 1
      newState == resetPlayerUnits(s, nextPlayer)
  IN [newState EXCEPT !.currentPlayer = nextPlayer,
                      !.actionPoints = s.maxActionPoints,
                      !.selectedSquare = NoSquare,
                      !.phase = "handoff",
                      !.turnNumber = s.turnNumber + 1]

endTurn(s) ==
  LET nextPlayer == IF s.currentPlayer = 1 THEN 2 ELSE 1
      nextTurn == IF nextPlayer = 1 THEN s.turnNumber + 1 ELSE s.turnNumber
      newState == resetPlayerUnits(s, nextPlayer)
  IN [newState EXCEPT !.currentPlayer = nextPlayer,
                      !.actionPoints = s.maxActionPoints,
                      !.selectedSquare = NoSquare,
                      !.phase = "handoff",
                      !.turnNumber = nextTurn]

\* confirmHandoff counting a turn as it hands over
confirmHandoff_countingTurn(s) ==
  [s EXCEPT !.phase = "playing", !.turnNumber = s.turnNumber + 1]

confirmHandoff(s) == [s EXCEPT !.phase = "playing"]

\* ---------------------------------------------------------------- combat.ts
\* attackersBySquare, a Map keyed by "col,row", is a function from the
\* attacking squares to the units attacking from each
allOf(attackersBySquare) ==
  UNION {Range(attackersBySquare[k]) : k \in DOMAIN attackersBySquare}

\* calculateBonuses without the cavalry charge
calculateBonuses_withoutCharge(attackersBySquare) ==
  LET allAttackers == allOf(attackersBySquare)
      types == {u.type : u \in allAttackers}
      cols == {k.col : k \in DOMAIN attackersBySquare}
      combined == IF Cardinality(types) >= 3 THEN <<"combined-arms-3">>
                  ELSE IF Cardinality(types) = 2 THEN <<"combined-arms-2">>
                  ELSE <<>>
      flanking == IF Cardinality(cols) >= 3 THEN <<"flanking-3">>
                  ELSE IF Cardinality(cols) >= 2 THEN <<"flanking-2">>
                  ELSE <<>>
  IN combined \o flanking

\* calculateBonuses counting the attacking squares for flanking
calculateBonuses_bySquares(attackersBySquare) ==
  LET allAttackers == allOf(attackersBySquare)
      types == {u.type : u \in allAttackers}
      cols == DOMAIN attackersBySquare
      combined == IF Cardinality(types) >= 3 THEN <<"combined-arms-3">>
                  ELSE IF Cardinality(types) = 2 THEN <<"combined-arms-2">>
                  ELSE <<>>
      flanking == IF Cardinality(cols) >= 3 THEN <<"flanking-3">>
                  ELSE IF Cardinality(cols) >= 2 THEN <<"flanking-2">>
                  ELSE <<>>
      hasChargingCav == \E u \in allAttackers :
                          u.type = "cavalry" /\ u.hasMoved /\ u.movedSquares = 1
      charge == IF hasChargingCav THEN <<"cavalry-charge">> ELSE <<>>
  IN combined \o flanking \o charge

\* calculateBonuses giving the charge to cavalry that has just been deployed
calculateBonuses_chargeOnDeploy(attackersBySquare) ==
  LET allAttackers == allOf(attackersBySquare)
      types == {u.type : u \in allAttackers}
      cols == {k.col : k \in DOMAIN attackersBySquare}
      combined == IF Cardinality(types) >= 3 THEN <<"combined-arms-3">>
                  ELSE IF Cardinality(types) = 2 THEN <<"combined-arms-2">>
                  ELSE <<>>
      flanking == IF Cardinality(cols) >= 3 THEN <<"flanking-3">>
                  ELSE IF Cardinality(cols) >= 2 THEN <<"flanking-2">>
                  ELSE <<>>
      hasChargingCav == \E u \in allAttackers :
                          u.type = "cavalry" /\ u.hasMoved /\ u.movedSquares <= 1
      charge == IF hasChargingCav THEN <<"cavalry-charge">> ELSE <<>>
  IN combined \o flanking \o charge

calculateBonuses(attackersBySquare) ==
  LET allAttackers == allOf(attackersBySquare)
      types == {u.type : u \in allAttackers}
      cols == {k.col : k \in DOMAIN attackersBySquare}
      combined == IF Cardinality(types) >= 3 THEN <<"combined-arms-3">>
                  ELSE IF Cardinality(types) = 2 THEN <<"combined-arms-2">>
                  ELSE <<>>
      flanking == IF Cardinality(cols) >= 3 THEN <<"flanking-3">>
                  ELSE IF Cardinality(cols) >= 2 THEN <<"flanking-2">>
                  ELSE <<>>
      hasChargingCav == \E u \in allAttackers :
                          u.type = "cavalry" /\ u.hasMoved /\ u.movedSquares = 1
      charge == IF hasChargingCav THEN <<"cavalry-charge">> ELSE <<>>
  IN combined \o flanking \o charge

RECURSIVE bonusTotal(_)
bonusTotal(bonuses) ==
  IF bonuses = <<>> THEN 0 ELSE BONUS_VALUES(Head(bonuses)) + bonusTotal(Tail(bonuses))

calculateThreshold(bonuses) ==
  LET raw == BASE_THRESHOLD + bonusTotal(bonuses)
  IN Max(MIN_THRESHOLD, Min(MAX_THRESHOLD, raw))

getArtilleryThreshold(distance) == ARTILLERY_THRESHOLDS(distance)

\* the hit counts totalDice rolls of a d40 can give: each roll is any of
\* 1..D40 and is a hit when roll <= threshold
RECURSIVE rollD40Attack(_, _)
rollD40Attack(totalDice, threshold) ==
  IF totalDice <= 0 THEN {0}
  ELSE {hits + (IF roll <= threshold THEN 1 ELSE 0) :
          hits \in rollD40Attack(totalDice - 1, threshold), roll \in 1..D40}

\* the hit loop picking among all defenders, the destroyed ones included
RECURSIVE hitLoop_anyDefender(_, _)
hitLoop_anyDefender(defenderState, hitsLeft) ==
  LET alive == 1..Len(defenderState) IN
  IF hitsLeft <= 0 \/ alive = {} THEN {defenderState}
  ELSE UNION {
    hitLoop_anyDefender(
      [defenderState EXCEPT ![i].remainingHp = @ - 1, ![i].totalDmg = @ + 1],
      hitsLeft - 1) : i \in alive }

\* the hit loop of distributeDamage: defenderState is the list of
\* {id, remainingHp, totalDmg}; each hit picks any defender still alive
RECURSIVE hitLoop(_, _)
hitLoop(defenderState, hitsLeft) ==
  LET alive == {i \in 1..Len(defenderState) : defenderState[i].remainingHp > 0} IN
  IF hitsLeft <= 0 \/ alive = {} THEN {defenderState}
  ELSE UNION {
    hitLoop([defenderState EXCEPT ![i].remainingHp = @ - 1, ![i].totalDmg = @ + 1],
            hitsLeft - 1) : i \in alive }

\* damageEntries with an entry for every defender, hit or not
damageEntries_listingAll(defenderState) ==
  [i \in 1..Len(defenderState) |->
     [unitId |-> defenderState[i].id, damage |-> defenderState[i].totalDmg,
      destroyed |-> defenderState[i].remainingHp <= 0]]

damageEntries(defenderState) ==
  LET hit == SelectSeq(defenderState, LAMBDA d : d.totalDmg > 0)
  IN [i \in 1..Len(hit) |->
        [unitId |-> hit[i].id, damage |-> hit[i].totalDmg,
         destroyed |-> hit[i].remainingHp <= 0]]

\* the set of results the random picks of distributeDamage can produce
distributeDamage(totalHits, attackers, defenders) ==
  LET defenderState ==
        [i \in 1..Len(defenders) |->
           [id |-> defenders[i].id, remainingHp |-> defenders[i].level, totalDmg |-> 0]]
  IN {damageEntries(ds) : ds \in hitLoop(defenderState, totalHits)}

\* ------------------------------------------- rules.ts, attack reachability
\* attack eligibility of a unit, whatever it can reach
\* canUnitAttack letting infantry and artillery attack after they moved
canUnitAttack_afterMoving(unit) ==
  /\ ~unit.hasAttacked
  /\ (unit.type = "cavalry" => (~unit.hasMoved \/ unit.movedSquares <= 1))

canUnitAttack(unit) ==
  /\ ~unit.hasAttacked
  /\ (unit.type = "infantry" => ~unit.hasMoved)
  /\ (unit.type = "artillery" => ~unit.hasMoved)
  /\ (unit.type = "cavalry" => (~unit.hasMoved \/ unit.movedSquares <= 1))

\* hasEnemyUnits taking any unit for an enemy
hasEnemyUnits_anyUnits(s, pos, attackerOwner) ==
  isOnGrid(pos) /\ Len(s.grid[pos]) > 0

hasEnemyUnits(s, pos, attackerOwner) ==
  /\ isOnGrid(pos)
  /\ \E i \in 1..Len(s.grid[pos]) : s.grid[pos][i].owner # attackerOwner

\* an absent unitId argument
NoUnit == 0

\* the directions in the order getValidAttacks tries them
ORTHOGONAL_ORDER == <<Pos(0, -1), Pos(0, 1), Pos(-1, 0), Pos(1, 0)>>

\* the list getValidAttacks returns: the enemy-occupied neighbours when an
\* eligible infantry or cavalry stands on from, then the enemy-occupied
\* squares of the column not yet listed when an eligible artillery does
attackTargets(s, from, unitId) ==
  IF ~isOnGrid(from) THEN <<>>
  ELSE
    LET attackers == SelectSeq(s.grid[from],
                       LAMBDA u : canUnitAttack(u) /\ (unitId = NoUnit \/ u.id = unitId))
    IN IF attackers = <<>> THEN <<>>
       ELSE
         LET owner == attackers[1].owner
             hasAdjacentAttacker ==
               \E i \in 1..Len(attackers) : attackers[i].type \in {"infantry", "cavalry"}
             hasArtillery ==
               \E i \in 1..Len(attackers) : attackers[i].type = "artillery"
             neighbours == [i \in 1..4 |-> Add(from, ORTHOGONAL_ORDER[i])]
             adjacent == IF hasAdjacentAttacker
                         THEN SelectSeq(neighbours,
                                LAMBDA t : isInBounds(t) /\ hasEnemyUnits(s, t, owner))
                         ELSE <<>>
             rows == [i \in 1..GRID_ROWS |-> Pos(from.col, i - 1)]
             column == IF hasArtillery
                       THEN SelectSeq(rows,
                              LAMBDA t : /\ t.row # from.row
                                         /\ hasEnemyUnits(s, t, owner)
                                         /\ t \notin Range(adjacent))
                       ELSE <<>>
         IN adjacent \o column

\* the targets of getValidAttacks, as a set
getValidAttacks(s, from, unitId) == Range(attackTargets(s, from, unitId))

\* ------------------------------------------------- actions.ts, attackSquare
\* an absent unitIds argument; a given one is [given |-> TRUE, ids |-> list]
NoUnitIds == [given |-> FALSE, ids |-> <<>>]

emptyResult(fromSquares, target) ==
  [attackerSquares |-> fromSquares, targetSquare |-> target,
   totalDice |-> 0, threshold |-> 0, hits |-> 0, bonuses |-> <<>>,
   unitDamage |-> <<>>, hasMelee |-> FALSE, hasArtillery |-> FALSE]

\* eligibleFrom taking the units that attacked already as well
eligibleFrom_attackingAgain(s, from, target, unitIds) ==
  IF ~isOnGrid(from) THEN <<>>
  ELSE SelectSeq(s.grid[from],
         LAMBDA u : /\ u.owner = s.currentPlayer
                    /\ (unitIds.given => u.id \in Range(unitIds.ids))
                    /\ hasEnemyUnits(s, target, u.owner)
                    /\ Abs(target.col - from.col) + Abs(target.row - from.row) = 1)

\* eligibleFrom asking what the square can reach, not what the unit can
eligibleFrom_bySquare(s, from, target, unitIds) ==
  IF ~isOnGrid(from) THEN <<>>
  ELSE SelectSeq(s.grid[from],
         LAMBDA u : /\ u.owner = s.currentPlayer /\ ~u.hasAttacked
                    /\ (unitIds.given => u.id \in Range(unitIds.ids))
                    /\ target \in getValidAttacks(s, from, NoUnit))

\* the eligible units of one source square: owner, hasAttacked, unitIds and
\* individual reachability filters, in that order
eligibleFrom(s, from, target, unitIds) ==
  IF ~isOnGrid(from) THEN <<>>
  ELSE SelectSeq(s.grid[from],
         LAMBDA u : /\ u.owner = s.currentPlayer /\ ~u.hasAttacked
                    /\ (unitIds.given => u.id \in Range(unitIds.ids))
                    /\ target \in getValidAttacks(s, from, u.id))

\* allAttackers: the eligible units of every entry of fromSquares, in order
RECURSIVE gatherAttackers(_, _, _, _)
gatherAttackers(s, fromSquares, target, unitIds) ==
  IF fromSquares = <<>> THEN <<>>
  ELSE eligibleFrom(s, Head(fromSquares), target, unitIds)
       \o gatherAttackers(s, Tail(fromSquares), target, unitIds)

gatherBySquare(s, fromSquares, target, unitIds) ==
  LET keys == {f \in Range(fromSquares) : eligibleFrom(s, f, target, unitIds) # <<>>}
  IN [k \in keys |-> eligibleFrom(s, k, target, unitIds)]

\* the artillery hit totals over the attacking squares, each square rolling
\* its artillery dice at the threshold of its row distance to the target
RECURSIVE artilleryRolls(_, _, _)
artilleryRolls(attackersBySquare, keys, target) ==
  IF keys = {} THEN {0}
  ELSE
    LET key == CHOOSE k \in keys : TRUE
        artUnits == SelectSeq(attackersBySquare[key], LAMBDA u : u.type = "artillery")
        distance == Abs(target.row - key.row)
        here == IF artUnits = <<>> THEN {0}
                ELSE rollD40Attack(SumLevels(artUnits), getArtilleryThreshold(distance))
    IN {a + b : a \in here, b \in artilleryRolls(attackersBySquare, keys \ {key}, target)}

\* markAttackers flagging every unit of the attacking squares
markAttackers_wholeSquare(s, fromSquares, attackerIds) ==
  [s EXCEPT !.grid =
     [p \in Squares |->
        IF \E i \in 1..Len(fromSquares) : fromSquares[i].row = p.row /\ fromSquares[i].col = p.col
        THEN [i \in 1..Len(s.grid[p]) |-> [s.grid[p][i] EXCEPT !.hasAttacked = TRUE]]
        ELSE s.grid[p]]]

\* markAttackers flagging the attackers as moved too
markAttackers_asMoved(s, fromSquares, attackerIds) ==
  [s EXCEPT !.grid =
     [p \in Squares |->
        IF \E i \in 1..Len(fromSquares) : fromSquares[i].row = p.row /\ fromSquares[i].col = p.col
        THEN [i \in 1..Len(s.grid[p]) |->
                IF s.grid[p][i].id \in attackerIds
                THEN [s.grid[p][i] EXCEPT !.hasAttacked = TRUE, !.hasMoved = TRUE]
                ELSE s.grid[p][i]]
        ELSE s.grid[p]]]

markAttackers(s, fromSquares, attackerIds) ==
  [s EXCEPT !.grid =
     [p \in Squares |->
        IF \E i \in 1..Len(fromSquares) : fromSquares[i].row = p.row /\ fromSquares[i].col = p.col
        THEN [i \in 1..Len(s.grid[p]) |->
                IF s.grid[p][i].id \in attackerIds
                THEN [s.grid[p][i] EXCEPT !.hasAttacked = TRUE]
                ELSE s.grid[p][i]]
        ELSE s.grid[p]]]

damageOf(unitDamage, unitId) ==
  LET idx == {i \in 1..Len(unitDamage) : unitDamage[i].unitId = unitId}
  IN IF idx = {} THEN 0
     ELSE unitDamage[CHOOSE i \in idx : \A j \in idx : i <= j].damage

\* applyDamage keeping the units whose level reached 0
applyDamage_keepingLevelZero(s, target, unitDamage) ==
  [s EXCEPT !.grid =
     [p \in Squares |->
        IF p.row # target.row \/ p.col # target.col THEN s.grid[p]
        ELSE SelectSeq(
               [i \in 1..Len(s.grid[p]) |->
                  [s.grid[p][i] EXCEPT !.level = @ - damageOf(unitDamage, s.grid[p][i].id)]],
               LAMBDA u : u.level >= 0)]]

applyDamage(s, target, unitDamage) ==
  [s EXCEPT !.grid =
     [p \in Squares |->
        IF p.row # target.row \/ p.col # target.col THEN s.grid[p]
        ELSE SelectSeq(
               [i \in 1..Len(s.grid[p]) |->
                  [s.grid[p][i] EXCEPT !.level = @ - damageOf(unitDamage, s.grid[p][i].id)]],
               LAMBDA u : u.level > 0)]]

\* the melee threshold without the cap on the artillery allowance
attackThreshold_uncapped(bonuses, artilleryDefenders) ==
  IF Len(artilleryDefenders) > 0
  THEN calculateThreshold(bonuses) + ARTILLERY_VULNERABILITY_THRESHOLD
  ELSE calculateThreshold(bonuses)

\* the melee threshold of attackSquare: that of the bonuses, raised when
\* artillery defends
attackThreshold(bonuses, artilleryDefenders) ==
  IF Len(artilleryDefenders) > 0
  THEN Min(calculateThreshold(bonuses) + ARTILLERY_VULNERABILITY_THRESHOLD, 36)
  ELSE calculateThreshold(bonuses)

\* the set of {state, attackResult} pairs attackSquare can return
attackSquare(s, fromSquares, target, unitIds) ==
  IF s.actionPoints <= 0
  THEN {[state |-> s, attackResult |-> emptyResult(fromSquares, target)]}
  ELSE IF ~isOnGrid(target)
  THEN {[state |-> s, attackResult |-> emptyResult(fromSquares, target)]}
  ELSE
    LET attackersBySquare == gatherBySquare(s, fromSquares, target, unitIds)
        allAttackers == gatherAttackers(s, fromSquares, target, unitIds)
        defenders == SelectSeq(s.grid[target], LAMBDA u : u.owner # s.currentPlayer)
    IN
    IF defenders = <<>>
    THEN {[state |-> s, attackResult |-> emptyResult(fromSquares, target)]}
    ELSE
      LET bonuses == calculateBonuses(attackersBySquare)
          artilleryDefenders == SelectSeq(defenders, LAMBDA u : u.type = "artillery")
          threshold == attackThreshold(bonuses, artilleryDefenders)
          meleeAttackers == SelectSeq(allAttackers, LAMBDA u : u.type # "artillery")
          meleeDice == SumLevels(meleeAttackers)
          meleeRolls == IF meleeDice > 0 THEN rollD40Attack(meleeDice, threshold) ELSE {0}
          artRolls == artilleryRolls(attackersBySquare, DOMAIN attackersBySquare, target)
          totalDice == SumLevels(allAttackers)
          artVulnBonus == Len(artilleryDefenders) * ARTILLERY_VULNERABILITY_DAMAGE
          flankingCols == {k.col : k \in DOMAIN attackersBySquare}
          flankingArtilleryBonus ==
            IF Cardinality(flankingCols) >= 2 /\ Len(artilleryDefenders) > 0
            THEN Cardinality(flankingCols) - 1 ELSE 0
          attackerIds == {u.id : u \in Range(allAttackers)}
          marked == markAttackers(s, fromSquares, attackerIds)
      IN UNION { UNION {
           LET hits == meleeHits + artilleryHits + artVulnBonus + flankingArtilleryBonus IN
           { [state |-> [applyDamage(marked, target, unitDamage)
                           EXCEPT !.actionPoints = s.actionPoints - 1],
              attackResult |->
                [attackerSquares |-> fromSquares, targetSquare |-> target,
                 totalDice |-> totalDice, threshold |-> threshold, hits |-> hits,
                 bonuses |-> bonuses, unitDamage |-> unitDamage,
                 hasMelee |-> Len(meleeAttackers) > 0,
                 hasArtillery |-> \E u \in Range(allAttackers) : u.type = "artillery"]]
             : unitDamage \in distributeDamage(hits, allAttackers, defenders) }
           : artilleryHits \in artRolls } : meleeHits \in meleeRolls }

checkWinCondition(s) ==
  LET onGrid(player) == \E p \in Squares : \E i \in 1..Len(s.grid[p]) :
                          s.grid[p][i].owner = player
      p1InReserve == Len(s.p1Reserve) > 0
      p2InReserve == Len(s.p2Reserve) > 0
  IN IF ~onGrid(2) /\ ~p2InReserve THEN 1
     ELSE IF ~onGrid(1) /\ ~p1InReserve THEN 2
     ELSE NoWinner

\* ------------------------------------------------------------ specification
\* the unit ids createInitialState hands out
UnitIds == 1..(2 * Len(Army))

\* positions callers pass: the squares of the first column and one position
\* off the grid
PosIn == {Pos(0, 0), Pos(0, 1), Pos(0, 2), Pos(0, 3), Pos(3, 0)}

\* unitIds lists callers pass to moveUnits: selections of distinct units
GroupIn == {<<>>} \cup {<<a>> : a \in UnitIds}
             \cup {g \in {<<a, b>> : a, b \in UnitIds} : g[1] # g[2]}

\* fromSquares lists callers pass to attackSquare
FromIn == {<<p>> : p \in PosIn} \cup {<<Pos(0, 1), Pos(0, 3)>>}

\* targets callers pass to attackSquare: the positions above and a square
\* of the second column, next to the home square (0,0) of player 1
TargetIn == PosIn \cup {Pos(1, 0)}

\* unitIds arguments callers pass to attackSquare
AttackIdsIn == {NoUnitIds} \cup {[given |-> TRUE, ids |-> <<a>>] : a \in UnitIds}

\* what the caller keeps of an attackResult
shown(attackResult) ==
  [totalDice |-> attackResult.totalDice, threshold |-> attackResult.threshold,
   hits |-> attackResult.hits, bonuses |-> attackResult.bonuses,
   unitDamage |-> attackResult.unitDamage, hasMelee |-> attackResult.hasMelee,
   hasArtillery |-> attackResult.hasArtillery]

\* the last call: its name, whether it returned its input state, and the
\* attackResult of an attackSquare
Called(op, before, after, attackResult) ==
  [op |-> op, same |-> (after = before), result |-> shown(attackResult)]

NoResult == emptyResult(<<>>, NoSquare)

\* states of play the exploration starts from, each obtained from
\* createInitialState by the action functions themselves
Opening == createInitialState(Army)

\* both armies deployed on their home squares of column 0, player 1 to move
Deployed ==
  LET a == deployUnit(deployUnit(Opening, 1, Pos(0, 0)), 2, Pos(0, 0))
      b == endTurn(a)
      c == deployUnit(deployUnit(b, 3, Pos(0, 3)), 4, Pos(0, 3))
  IN endTurn(c)

\* the armies in contact: player 1 on (0,1), the infantry of player 2 on
\* (0,2), its cavalry on (0,3), player 1 to move
Contact ==
  LET a == moveUnits(Deployed, <<1, 2>>, Pos(0, 0), Pos(0, 1))
      b == endTurn(a)
      c == moveUnit(b, 3, Pos(0, 3), Pos(0, 2))
  IN endTurn(c)

\* four more single moves of one unit, back and forth between two squares
shuttle(s, unitId, here, there) ==
  moveUnit(moveUnit(moveUnit(moveUnit(s, unitId, here, there),
                             unitId, there, here), unitId, here, there),
           unitId, there, here)

\* the opening turn with one action point left: the infantry of player 1
\* deployed and moved about, its cavalry still in reserve
OpeningSpent == shuttle(deployUnit(Opening, 1, Pos(0, 0)), 1, Pos(0, 0), Pos(0, 1))

\* the armies in contact with one action point left: the infantry of
\* player 1 moved about, its cavalry next to the enemy and yet to act
ContactSpent ==
  shuttle(moveUnit(Contact, 1, Pos(0, 1), Pos(0, 0)), 1, Pos(0, 0), Pos(0, 1))

\* the cavalry of player 1 has charged: one square forward from its home
\* square, next to the infantry of player 2 on (0,2)
Charge ==
  LET a == endTurn(Deployed)
      b == moveUnit(a, 3, Pos(0, 3), Pos(0, 2))
  IN moveUnit(endTurn(b), 2, Pos(0, 0), Pos(0, 1))

\* the cavalry of player 1 has moved two squares forward from its home
\* square and stands next to the home square of player 2
LongCharge == moveUnit(Deployed, 2, Pos(0, 0), Pos(0, 2))

\* a turn of the other player passes, then the player to move passes too
pass(s) == endTurn(endTurn(s))

\* armies with artillery: infantry and artillery of player 1 fresh on their
\* home square (0,0), the infantry of player 2 marched down the second
\* column to (1,0), its artillery on (0,3), player 1 to move
Battery ==
  LET a == deployUnit(deployUnit(createInitialState(ArtilleryArmy), 1, Pos(0, 0)),
                      2, Pos(0, 0))
      b == deployUnit(deployUnit(endTurn(a), 3, Pos(1, 3)), 4, Pos(0, 3))
      c == moveUnit(pass(b), 3, Pos(1, 3), Pos(1, 2))
      d == moveUnit(pass(c), 3, Pos(1, 2), Pos(1, 1))
      e == moveUnit(pass(d), 3, Pos(1, 1), Pos(1, 0))
  IN endTurn(e)

StartStates == {Opening, Contact, OpeningSpent, ContactSpent, Battery}

\* the states attacks are studied from: those above and the two with
\* cavalry that has moved
AttackStates == StartStates \cup {Charge, LongCharge}

Init ==
  /\ state \in StartStates
  /\ last = Called("init", state, state, NoResult)
  /\ steps = 0

DeployUnit ==
  \E unitId \in UnitIds, target \in PosIn :
    /\ steps < MaxSteps
    /\ state' = deployUnit(state, unitId, target)
    /\ last' = Called("deployUnit", state, state', NoResult)
    /\ steps' = steps + 1

MoveUnit ==
  \E unitId \in UnitIds, from \in PosIn, to \in PosIn :
    /\ steps < MaxSteps
    /\ state' = moveUnit(state, unitId, from, to)
    /\ last' = Called("moveUnit", state, state', NoResult)
    /\ steps' = steps + 1

MoveUnits ==
  \E unitIds \in GroupIn, from \in PosIn, to \in PosIn :
    /\ steps < MaxSteps
    /\ state' = moveUnits(state, unitIds, from, to)
    /\ last' = Called("moveUnits", state, state', NoResult)
    /\ steps' = steps + 1

AttackSquare ==
  \E fromSquares \in FromIn, target \in TargetIn, unitIds \in AttackIdsIn :
    \E r \in attackSquare(state, fromSquares, target, unitIds) :
      /\ steps < MaxSteps
      /\ state' = r.state
      /\ last' = Called("attackSquare", state, state', r.attackResult)
      /\ steps' = steps + 1

EndTurn ==
  /\ steps < MaxSteps
  /\ state' = endTurn(state)
  /\ last' = Called("endTurn", state, state', NoResult)
  /\ steps' = steps + 1

Next == DeployUnit \/ MoveUnit \/ MoveUnits \/ AttackSquare \/ EndTurn

Spec == Init /\ [][Next]_vars

\* ------------------------------------------------------------------ claims
ActionOps == {"deployUnit", "moveUnit", "moveUnits", "attackSquare"}

\* board and reserves of a state
contents(s) == <<s.grid, s.p1Reserve, s.p2Reserve>>

unchangedResult(s, fromSquares, target) ==
  {[state |-> s, attackResult |-> emptyResult(fromSquares, target)]}

\* C1: a deploy, move, group move or attack that changes board or reserves
\* lowers actionPoints by exactly 1, and one that leaves board and reserves
\* as they were leaves actionPoints unchanged.
C1_OneActionPointPerSuccess ==
  [][ last'.op \in ActionOps =>
        IF contents(state') = contents(state)
        THEN state'.actionPoints = state.actionPoints
        ELSE state'.actionPoints = state.actionPoints - 1 ]_vars

\* C2: with actionPoints 0, deployUnit, moveUnit and moveUnits return the
\* state they were given and attackSquare returns it with the zero result,
\* whatever the arguments.
C2_NoActionAtZeroAP ==
  state.actionPoints = 0 =>
    /\ \A unitId \in UnitIds, target \in PosIn :
         deployUnit(state, unitId, target) = state
    /\ \A unitId \in UnitIds, from \in PosIn, to \in PosIn :
         moveUnit(state, unitId, from, to) = state
    /\ \A unitIds \in GroupIn, from \in PosIn, to \in PosIn :
         moveUnits(state, unitIds, from, to) = state
    /\ \A fromSquares \in FromIn, target \in PosIn, unitIds \in AttackIdsIn :
         attackSquare(state, fromSquares, target, unitIds)
           = unchangedResult(state, fromSquares, target)

\* an attack was called with no action point left, by a player whose
\* cavalry stands ready next to an enemy square
C2_Witness ==
  /\ state.actionPoints = 0
  /\ last.op = "attackSquare" /\ last.same /\ last.result.totalDice = 0
  /\ \E from \in Squares : \E i \in 1..Len(state.grid[from]) :
       /\ state.grid[from][i].owner = state.currentPlayer
       /\ getValidAttacks(state, from, state.grid[from][i].id) # {}

\* C3: attackSquare returns the state it was given, with the zero result,
\* whenever no attacker is left after the filters or the target square
\* holds no unit of the opponent.
C3_NoAttackerOrNoDefenderIsNoOp ==
  \A fromSquares \in FromIn, target \in PosIn, unitIds \in AttackIdsIn :
    ( \/ gatherAttackers(state, fromSquares, target, unitIds) = <<>>
      \/ ~hasEnemyUnits(state, target, state.currentPlayer) )
    => attackSquare(state, fromSquares, target, unitIds)
         = unchangedResult(state, fromSquares, target)

\* the units of a unitIds list found on a square
unitsOf(s, unitIds, from) == [i \in 1..Len(unitIds) |-> FindUnit(s.grid[from], unitIds[i])]

\* C4: moveUnit and moveUnits return the state they were given whenever the
\* destination is not among the destinations the movement evaluator gives
\* for that unit, or that group, from the source square.
C4_IllegalDestinationIsNoOp ==
  /\ \A unitId \in UnitIds, from \in PosIn, to \in PosIn :
       ( /\ isOnGrid(from) /\ HasUnit(state.grid[from], unitId)
         /\ to \notin getValidMoves(state, FindUnit(state.grid[from], unitId), from) )
       => moveUnit(state, unitId, from, to) = state
  /\ \A unitIds \in GroupIn, from \in PosIn, to \in PosIn :
       ( /\ isOnGrid(from) /\ unitIds # <<>>
         /\ \A i \in 1..Len(unitIds) : HasUnit(state.grid[from], unitIds[i])
         /\ to \notin getValidGroupMoves(state, unitsOf(state, unitIds, from), from) )
       => moveUnits(state, unitIds, from, to) = state

\* C5: deployUnit returns the state it was given when actionPoints is 0 or
\* less, when the unit is not in the current player's reserve, or when the
\* target is not a square of the grid on the current player's home row
\* with room left.
C5_IllegalDeployIsNoOp ==
  \A unitId \in UnitIds, target \in PosIn :
    ( \/ state.actionPoints <= 0
      \/ ~HasUnit(getReserve(state, state.currentPlayer), unitId)
      \/ ~canDeploy(state, state.currentPlayer, target) )
    => deployUnit(state, unitId, target) = state

\* C6: no square holds more than 3 units.
C6_AtMostThreeUnitsPerSquare ==
  \A p \in Squares : Len(state.grid[p]) <= MAX_UNITS_PER_SQUARE

\* C7: all units standing on one square belong to the same player.
C7_OneOwnerPerSquare ==
  \A p \in Squares : \A i, j \in 1..Len(state.grid[p]) :
    state.grid[p][i].owner = state.grid[p][j].owner

\* every unit of a state, on the board or in a reserve
allUnits(s) ==
  UNION {Range(s.grid[p]) : p \in Squares} \cup Range(s.p1Reserve) \cup Range(s.p2Reserve)

onBoardIds(s) == {u.id : u \in UNION {Range(s.grid[p]) : p \in Squares}}

\* C8: every unit on the board or in a reserve has level at least 1, and a
\* defender an attack reports destroyed is on no square of the state that
\* attack returned.
C8_LevelAtLeastOne ==
  /\ \A u \in allUnits(state) : u.level >= 1
  /\ last.op = "attackSquare" =>
       \A i \in 1..Len(last.result.unitDamage) :
         last.result.unitDamage[i].destroyed
           => last.result.unitDamage[i].unitId \notin onBoardIds(state)

\* an attack destroyed one defender and left another unit of the defending
\* player damaged or untouched on the board
C8_Witness ==
  /\ last.op = "attackSquare"
  /\ \E i \in 1..Len(last.result.unitDamage) : last.result.unitDamage[i].destroyed
  /\ \E u \in allUnits(state) : u.owner # state.currentPlayer

otherPlayer(player) == IF player = 1 THEN 2 ELSE 1

\* C10: endTurn clears hasMoved, hasAttacked and movedSquares on every board
\* unit of the incoming player and leaves every other unit as it was; no
\* unit changes square, place in its square, level, type, owner or id.
C10_EndTurnResetsIncomingOnly ==
  LET after == endTurn(state)
      incoming == otherPlayer(state.currentPlayer)
  IN /\ after.p1Reserve = state.p1Reserve
     /\ after.p2Reserve = state.p2Reserve
     /\ \A p \in Squares :
          /\ Len(after.grid[p]) = Len(state.grid[p])
          /\ \A i \in 1..Len(state.grid[p]) :
               LET u == state.grid[p][i]
                   v == after.grid[p][i]
               IN /\ v.id = u.id /\ v.type = u.type
                  /\ v.owner = u.owner /\ v.level = u.level
                  /\ u.owner = incoming =>
                       ~v.hasMoved /\ ~v.hasAttacked /\ v.movedSquares = 0
                  /\ u.owner # incoming =>
                       /\ v.hasMoved = u.hasMoved
                       /\ v.hasAttacked = u.hasAttacked
                       /\ v.movedSquares = u.movedSquares

\* a turn has just ended: the incoming player has a unit on the board, all
\* its flags cleared, and a unit of the outgoing player keeps the flag of
\* the attack it made
C10_Witness ==
  /\ last.op = "endTurn"
  /\ \E u \in allUnits(state) :
       /\ u.owner = state.currentPlayer /\ u.id \in onBoardIds(state)
       /\ ~u.hasMoved /\ ~u.hasAttacked
  /\ \E u \in allUnits(state) : u.owner # state.currentPlayer /\ u.hasAttacked

\* values of selectedSquare a caller may have stored in the state
SelectionIn == {NoSquare} \cup PosIn

\* C11: endTurn, applied to any state and whatever the selection stored in
\* it, returns the other player as currentPlayer, actionPoints equal to
\* maxActionPoints, no selection and phase 'handoff'.
C11_EndTurnHandsOver ==
  \A sel \in SelectionIn :
    LET after == endTurn([state EXCEPT !.selectedSquare = sel])
    IN /\ after.currentPlayer = otherPlayer(state.currentPlayer)
       /\ after.actionPoints = state.maxActionPoints
       /\ after.selectedSquare = NoSquare
       /\ after.phase = "handoff"

\* a player who moved a unit this turn has ended the turn: the other
\* player is to move with all action points
C11_Witness ==
  /\ last.op = "endTurn"
  /\ state.actionPoints = state.maxActionPoints /\ state.phase = "handoff"
  /\ \E u \in allUnits(state) :
       u.owner # state.currentPlayer /\ u.hasMoved /\ u.id \in onBoardIds(state)

\* C12: an endTurn whose incoming player is player 1 adds exactly 1 to
\* turnNumber and one whose incoming player is player 2 leaves it, so a
\* second endTurn right after gives the original player back with
\* turnNumber one more; no other action changes turnNumber or currentPlayer.
C12_TurnNumberCountsRounds ==
  [][ IF last'.op = "endTurn"
      THEN /\ state'.currentPlayer = otherPlayer(state.currentPlayer)
           /\ state'.turnNumber =
                state.turnNumber + (IF state'.currentPlayer = 1 THEN 1 ELSE 0)
           /\ endTurn(state').currentPlayer = state.currentPlayer
           /\ endTurn(state').turnNumber = state.turnNumber + 1
      ELSE /\ state'.turnNumber = state.turnNumber
           /\ state'.currentPlayer = state.currentPlayer ]_vars

\* both players have ended the opening turn: player 1 is to move in turn 2
C12_Witness ==
  /\ last.op = "endTurn" /\ steps = 2
  /\ state.currentPlayer = 1 /\ state.turnNumber = 2

\* C19: every artillery unit on the board stands on the home row of its
\* owner.
C19_ArtilleryStaysOnHomeRow ==
  \A p \in Squares : \A i \in 1..Len(state.grid[p]) :
    state.grid[p][i].type = "artillery" => p.row = getHomeRow(state.grid[p][i].owner)

\* C20: for a unit that has been deployed or moved (hasMoved) the movement
\* evaluator gives no destination, and no moveUnit or moveUnits call takes
\* it off the square it stands on.
C20_OneMovePerUnitPerTurn ==
  \A from \in PosIn \cap Squares : \A u \in Range(state.grid[from]) :
    u.hasMoved =>
      /\ getValidMoves(state, u, from) = {}
      /\ \A to \in PosIn :
           /\ HasUnit(moveUnit(state, u.id, from, to).grid[from], u.id)
           /\ \A unitIds \in GroupIn :
                HasUnit(moveUnits(state, unitIds, from, to).grid[from], u.id)

\* C21: a deployUnit call with action points left, naming a unit of the
\* current player's reserve and a square of that player's home row, removes
\* exactly that unit from the reserve and appends it, same id, type, owner
\* and level, hasMoved = TRUE and movedSquares = 0, to the target square;
\* actionPoints drops by 1 and nothing else in the state changes.
C21_DeployMovesUnitToHomeSquare ==
  \A unitId \in UnitIds, target \in PosIn :
    LET player == state.currentPlayer
        reserve == getReserve(state, player)
        after == deployUnit(state, unitId, target)
    IN (/\ state.actionPoints > 0
        /\ HasUnit(reserve, unitId)
        /\ isOnGrid(target) /\ target.row = getHomeRow(player))
       => LET unit == FindUnit(reserve, unitId) IN
          /\ getReserve(after, player) = SelectSeq(reserve, LAMBDA u : u.id # unitId)
          /\ Len(getReserve(after, player)) = Len(reserve) - 1
          /\ getReserve(after, otherPlayer(player)) = getReserve(state, otherPlayer(player))
          /\ after.grid[target] =
               Append(state.grid[target],
                      [id |-> unit.id, type |-> unit.type, owner |-> unit.owner,
                       level |-> unit.level, hasMoved |-> TRUE,
                       hasAttacked |-> unit.hasAttacked, movedSquares |-> 0])
          /\ \A p \in Squares \ {target} : after.grid[p] = state.grid[p]
          /\ after.actionPoints = state.actionPoints - 1
          /\ [after EXCEPT !.grid = state.grid, !.p1Reserve = state.p1Reserve,
                           !.p2Reserve = state.p2Reserve,
                           !.actionPoints = state.actionPoints] = state

\* player 1 has deployed the infantry on the home square (0,0), the cavalry
\* is still in reserve
C21_Witness ==
  /\ last.op = "deployUnit" /\ ~last.same
  /\ Len(state.p1Reserve) = 1 /\ Len(state.grid[Pos(0, 0)]) = 1
  /\ state.grid[Pos(0, 0)][1].id = 1 /\ state.grid[Pos(0, 0)][1].hasMoved

\* ----------------------------------------------- attackSquare on its own
\* attacks from the states of play above, or from the state one deployment
\* or one move of a single unit away from them
Manoeuvre == steps = 0 /\ (DeployUnit \/ MoveUnit)

NextAttack == Manoeuvre \/ AttackSquare

InitAttack ==
  /\ state \in AttackStates
  /\ last = Called("init", state, state, NoResult)
  /\ steps = 0

SpecAttack == InitAttack /\ [][NextAttack]_vars

\* ------------------------------------------- claims about attackSquare
\* the units standing on the board
boardUnits(s) == UNION {Range(s.grid[p]) : p \in Squares}

\* the unit is among those a unitIds argument lets attack
named(unitIds, u) == unitIds.given => u.id \in Range(unitIds.ids)

\* the board units of the fromSquares entries, square by square
RECURSIVE unitsOn(_, _)
unitsOn(s, fromSquares) ==
  IF fromSquares = <<>> THEN <<>>
  ELSE (IF isOnGrid(Head(fromSquares)) THEN s.grid[Head(fromSquares)] ELSE <<>>)
       \o unitsOn(s, Tail(fromSquares))

\* an attack on target finds action points and a unit of the opponent
resolves(s, target) ==
  s.actionPoints > 0 /\ isOnGrid(target) /\ hasEnemyUnits(s, target, s.currentPlayer)

\* the units whose hasAttacked an attack has set
tookPart(s, after) ==
  {u \in boardUnits(s) :
     ~u.hasAttacked /\ \E v \in boardUnits(after) : v.id = u.id /\ v.hasAttacked}

movedOnFoot(u) == u.type \in {"infantry", "artillery"} /\ u.hasMoved

\* C14: an infantry or artillery unit of the player to move that has been
\* deployed or moved this turn (hasMoved) takes part in no attack: whatever
\* the arguments, totalDice stays within the levels of the other units the
\* call names and the unit's hasAttacked is left as it was.
C14_MovedInfantryAndArtilleryDoNotAttack ==
  \A fromSquares \in FromIn, target \in TargetIn, unitIds \in AttackIdsIn :
    \A r \in attackSquare(state, fromSquares, target, unitIds) :
      /\ r.attackResult.totalDice <=
           SumLevels(SelectSeq(unitsOn(state, fromSquares),
                       LAMBDA u : /\ u.owner = state.currentPlayer
                                  /\ named(unitIds, u) /\ ~movedOnFoot(u)))
      /\ \A u \in boardUnits(state) :
           (u.owner = state.currentPlayer /\ movedOnFoot(u))
             => \A v \in boardUnits(r.state) : v.id = u.id => v.hasAttacked = u.hasAttacked

\* an attack was made from a square where infantry that moved this turn
\* stands: a unit at its side attacked, the infantry did not
C14_Witness ==
  /\ last.op = "attackSquare" /\ last.result.totalDice > 0
  /\ \E p \in Squares : \E i, j \in 1..Len(state.grid[p]) :
       /\ state.grid[p][i].owner = state.currentPlayer
       /\ state.grid[p][i].type = "infantry"
       /\ state.grid[p][i].hasMoved /\ ~state.grid[p][i].hasAttacked
       /\ state.grid[p][j].owner = state.currentPlayer
       /\ state.grid[p][j].hasAttacked

charging(u) == u.type = "cavalry" /\ u.hasMoved /\ u.movedSquares = 1

spent(u) == u.type = "cavalry" /\ u.hasMoved /\ u.movedSquares = 2

adjacent(a, b) == Abs(a.col - b.col) + Abs(a.row - b.row) = 1

\* C15: cavalry that moved one square attacks and brings the cavalry-charge
\* bonus; the bonus is given for no other unit; cavalry that moved two
\* squares takes part in no attack.
C15_CavalryChargesAfterOneSquare ==
  \A fromSquares \in FromIn, target \in TargetIn, unitIds \in AttackIdsIn :
    \A r \in attackSquare(state, fromSquares, target, unitIds) :
      /\ \A i \in 1..Len(fromSquares) :
           LET from == fromSquares[i] IN
           (isOnGrid(from) /\ adjacent(from, target) /\ resolves(state, target)) =>
             \A k \in 1..Len(state.grid[from]) :
               LET u == state.grid[from][k] IN
               ( /\ u.owner = state.currentPlayer /\ charging(u)
                 /\ ~u.hasAttacked /\ named(unitIds, u) )
               => /\ u \in tookPart(state, r.state)
                  /\ "cavalry-charge" \in Range(r.attackResult.bonuses)
                  /\ r.attackResult.totalDice >= u.level
      /\ "cavalry-charge" \in Range(r.attackResult.bonuses)
           => \E u \in tookPart(state, r.state) : charging(u)
      /\ \A u \in tookPart(state, r.state) : ~spent(u)
      /\ r.attackResult.totalDice <=
           SumLevels(SelectSeq(unitsOn(state, fromSquares),
                       LAMBDA u : /\ u.owner = state.currentPlayer
                                  /\ named(unitIds, u) /\ ~spent(u)))

\* an attack with the cavalry-charge bonus was made by cavalry that moved
\* one square this turn
C15_Witness ==
  /\ last.op = "attackSquare"
  /\ "cavalry-charge" \in Range(last.result.bonuses)
  /\ \E u \in boardUnits(state) :
       u.owner = state.currentPlayer /\ charging(u) /\ u.hasAttacked

\* the unit types found among a sequence of units
typesOf(units) == {units[i].type : i \in 1..Len(units)}

\* C16: a unit whose hasAttacked is set takes part in no attack: totalDice
\* stays within the levels of the named units of the player to move that
\* have not attacked, and every bonus is owed to those units alone.
C16_OneAttackPerUnitPerTurn ==
  \A fromSquares \in FromIn, target \in TargetIn, unitIds \in AttackIdsIn :
    \A r \in attackSquare(state, fromSquares, target, unitIds) :
      LET fresh == SelectSeq(unitsOn(state, fromSquares),
                     LAMBDA u : /\ u.owner = state.currentPlayer
                                /\ named(unitIds, u) /\ ~u.hasAttacked)
          bonuses == Range(r.attackResult.bonuses)
      IN /\ r.attackResult.totalDice <= SumLevels(fresh)
         /\ "combined-arms-2" \in bonuses => Cardinality(typesOf(fresh)) >= 2
         /\ "combined-arms-3" \in bonuses => Cardinality(typesOf(fresh)) >= 3
         /\ "cavalry-charge" \in bonuses => \E i \in 1..Len(fresh) : charging(fresh[i])
         /\ (r.attackResult.hasMelee \/ r.attackResult.hasArtillery) => fresh # <<>>

\* a second attack was called on an enemy square next to a unit that has
\* attacked this turn and has no fresh unit at its side: no dice were rolled
C16_Witness ==
  /\ last.op = "attackSquare" /\ steps = 2 /\ last.result.totalDice = 0
  /\ last.result.threshold > 0
  /\ \E p \in Squares :
       /\ state.grid[p] # <<>>
       /\ \A i \in 1..Len(state.grid[p]) :
            state.grid[p][i].owner = state.currentPlayer /\ state.grid[p][i].hasAttacked
       /\ \E t \in Squares : adjacent(p, t) /\ hasEnemyUnits(state, t, state.currentPlayer)

\* the reach of a unit from its square: infantry and cavalry one orthogonal
\* step, artillery any other row of its column
reaches(u, from, target) ==
  IF u.type = "artillery" THEN target.col = from.col /\ target.row # from.row
  ELSE adjacent(from, target)

\* the units of a square that take part in an attack on target
attackersAt(s, from, target, unitIds) ==
  IF ~isOnGrid(from) THEN <<>>
  ELSE SelectSeq(s.grid[from],
         LAMBDA u : /\ u.owner = s.currentPlayer /\ named(unitIds, u)
                    /\ canUnitAttack(u) /\ reaches(u, from, target))

RECURSIVE reachDice(_, _, _, _)
reachDice(s, fromSquares, target, unitIds) ==
  IF fromSquares = <<>> THEN 0
  ELSE SumLevels(attackersAt(s, Head(fromSquares), target, unitIds))
       + reachDice(s, Tail(fromSquares), target, unitIds)

C18_OnlyParticipantsAreFlagged ==
  \A fromSquares \in FromIn, target \in TargetIn, unitIds \in AttackIdsIn :
    \A r \in attackSquare(state, fromSquares, target, unitIds) :
      /\ \A p \in Squares \ {target} :
           /\ Len(r.state.grid[p]) = Len(state.grid[p])
           /\ \A i \in 1..Len(state.grid[p]) :
                LET u == state.grid[p][i]
                    v == r.state.grid[p][i]
                    part == /\ resolves(state, target)
                            /\ p \in Range(fromSquares)
                            /\ u \in Range(attackersAt(state, p, target, unitIds))
                IN IF part THEN v = [u EXCEPT !.hasAttacked = TRUE] ELSE v = u
      /\ isOnGrid(target) =>
           \A v \in Range(r.state.grid[target]) :
             \E u \in Range(state.grid[target]) :
               u.id = v.id /\ v = [u EXCEPT !.level = v.level]

\* an attack by one unit named in unitIds: it is flagged, the unit sharing
\* its square is not and may attack yet
C18_Witness ==
  /\ last.op = "attackSquare" /\ last.result.totalDice > 0
  /\ \E p \in Squares : \E i, j \in 1..Len(state.grid[p]) :
       /\ state.grid[p][i].owner = state.currentPlayer
       /\ state.grid[p][i].hasAttacked
       /\ state.grid[p][j].owner = state.currentPlayer
       /\ ~state.grid[p][j].hasAttacked /\ canUnitAttack(state.grid[p][j])

\* ------------------------------------- the damage distributor on its own
\* defender lists of up to MaxDefenders units of levels 1..MaxLevel
DefendersIn ==
  UNION { {[i \in 1..n |-> createUnit("infantry", 2, levels[i], i)] :
             levels \in [1..n -> 1..MaxLevel]} : n \in 0..MaxDefenders }

InitDamage ==
  /\ state \in [totalHits : 0..MaxHits, defenders : DefendersIn]
  /\ last = <<>>
  /\ steps = 0

Distribute ==
  /\ steps = 0
  /\ \E unitDamage \in distributeDamage(state.totalHits, <<>>, state.defenders) :
       last' = unitDamage
  /\ steps' = 1
  /\ UNCHANGED state

NextDamage == Distribute

SpecDamage == InitDamage /\ [][NextDamage]_vars

RECURSIVE SumDamage(_)
SumDamage(unitDamage) ==
  IF unitDamage = <<>> THEN 0 ELSE Head(unitDamage).damage + SumDamage(Tail(unitDamage))

\* C9: the damage entries distributeDamage returns sum to the lesser of the
\* hit count and the sum of the defenders' levels.
C9_DamageSumsToHits ==
  steps = 1 => SumDamage(last) = Min(state.totalHits, SumLevels(state.defenders))

\* more hits than two or more defenders can take: the surplus is discarded
C9_Witness ==
  /\ steps = 1
  /\ Len(state.defenders) >= 2
  /\ state.totalHits > SumLevels(state.defenders)
  /\ SumDamage(last) = SumLevels(state.defenders)

\* ----------------------------------------- the win condition on its own
\* a state after the board units of lost have left play: destroyed in
\* attacks or moved off the board
without(s, lost) ==
  [s EXCEPT !.grid = [p \in Squares |-> SelectSeq(s.grid[p], LAMBDA u : u.id \notin lost)]]

\* the states checkWinCondition is applied to: the states of play above
\* with any of their board units gone
WinStatesIn ==
  UNION { {without(s, lost) : lost \in SUBSET onBoardIds(s)} :
          s \in AttackStates \cup {Deployed} }

InitWin ==
  /\ state \in WinStatesIn
  /\ last = NoWinner
  /\ steps = 0

CheckWin ==
  /\ steps = 0
  /\ last' = checkWinCondition(state)
  /\ steps' = 1
  /\ UNCHANGED state

NextWin == CheckWin

SpecWin == InitWin /\ [][NextWin]_vars

\* a player has a unit on the board or in reserve
hasUnits(s, player) == \E u \in allUnits(s) : u.owner = player

\* C13: checkWinCondition returns null exactly when both players have a
\* unit on the board or in reserve; a winner it names has a unit left and
\* the opponent of that winner has none.
C13_WinnerHasUnitsLoserNone ==
  steps = 1 =>
    /\ last = NoWinner <=> (hasUnits(state, 1) /\ hasUnits(state, 2))
    /\ last # NoWinner => hasUnits(state, last) /\ ~hasUnits(state, otherPlayer(last))

\* --------------------------------------- the bonus calculation on its own
\* the squares next to the target (1,1): two of the middle column and one
\* of each outer column
AroundIn == {Pos(0, 1), Pos(2, 1), Pos(1, 0), Pos(1, 2)}

\* the attackers of one square: infantry, cavalry that has charged,
\* artillery, or infantry with cavalry that has not moved
StacksIn ==
  LET infantry == createUnit("infantry", 1, 1, 1)
      cavalry == createUnit("cavalry", 1, 2, 2)
      artillery == createUnit("artillery", 1, 1, 3)
  IN { <<infantry>>,
       << [cavalry EXCEPT !.hasMoved = TRUE, !.movedSquares = 1] >>,
       <<artillery>>,
       <<infantry, cavalry>> }

\* attackersBySquare maps over one to four of the squares
AttackersBySquareIn == UNION {[keys -> StacksIn] : keys \in (SUBSET AroundIn) \ {{}}}

\* the artillery defenders of the target: none, or one
ArtilleryDefendersIn == {<<>>, <<createUnit("artillery", 2, 1, 4)>>}

InitBonus ==
  /\ state \in [attackersBySquare : AttackersBySquareIn,
                 artilleryDefenders : ArtilleryDefendersIn]
  /\ last = <<>>
  /\ steps = 0

Calculate ==
  /\ steps = 0
  /\ LET bonuses == calculateBonuses(state.attackersBySquare)
     IN last' = [bonuses |-> bonuses,
                 threshold |-> attackThreshold(bonuses, state.artilleryDefenders)]
  /\ steps' = 1
  /\ UNCHANGED state

NextBonus == Calculate

SpecBonus == InitBonus /\ [][NextBonus]_vars

clearSelection(s) == [s EXCEPT !.selectedSquare = NoSquare]

\* handleAction going on without its win check
winCheck_never(s) == s

\* the win check recording the winner without ending the game
winCheck_keepingPhase(s) ==
  LET winner == checkWinCondition(s)
  IN IF winner # NoWinner THEN [s EXCEPT !.winner = winner] ELSE s

\* the win check of handleAction after a deployment and after an attack
winCheck(s) ==
  LET winner == checkWinCondition(s)
  IN IF winner # NoWinner THEN [s EXCEPT !.phase = "game-over", !.winner = winner]
     ELSE s

\* a retreat that names the retreating player the winner
retreat_toCurrentPlayer(s) ==
  clearSelection([s EXCEPT !.phase = "game-over", !.winner = s.currentPlayer])

\* a retreat that asks for confirmation first
retreat_askingFirst(s) == clearSelection([s EXCEPT !.phase = "retreat-confirm"])

\* the 'retreat' case of handleAction
retreat(s) ==
  LET winner == IF s.currentPlayer = 1 THEN 2 ELSE 1
  IN clearSelection([s EXCEPT !.phase = "game-over", !.winner = winner])

\* selectedUnitIds and selectedSquares
Selection(unitIds, squares) == [unitIds |-> unitIds, squares |-> squares]

\* validMoves as recalcMoves leaves it
recalcMoves(s, sel) ==
  IF Len(sel.unitIds) = 0 \/ Len(sel.squares) = 0 THEN {}
  ELSE IF Len(sel.unitIds) = 1
  THEN LET onlyId == sel.unitIds[1]
           onlySq == sel.squares[1]
       IN IF isOnGrid(onlySq) /\ HasUnit(s.grid[onlySq], onlyId)
          THEN LET onlyUnit == FindUnit(s.grid[onlySq], onlyId)
               IN IF ~onlyUnit.hasMoved THEN getValidMoves(s, onlyUnit, onlySq) ELSE {}
          ELSE {}
  ELSE IF Len(sel.squares) # 1 THEN {}
  ELSE IF ~isOnGrid(sel.squares[1]) THEN {}
  ELSE LET sq == s.grid[sel.squares[1]]
       IN IF \E i \in 1..Len(sel.unitIds) : ~HasUnit(sq, sel.unitIds[i]) THEN {}
          ELSE getValidGroupMoves(
                 s, [i \in 1..Len(sel.unitIds) |-> FindUnit(sq, sel.unitIds[i])],
                 sel.squares[1])

\* validAttacks as recalcAttacks leaves it: the targets every selected unit
\* reaches from every selected square
recalcAttacks(s, sel) ==
  IF Len(sel.unitIds) = 0 \/ Len(sel.squares) = 0 THEN {}
  ELSE {t \in Squares :
          \A i \in 1..Len(sel.squares), j \in 1..Len(sel.unitIds) :
            t \in getValidAttacks(s, sel.squares[i], sel.unitIds[j])}

\* validMoves as the 'selectReserve' case leaves it
deployTargets(s) ==
  {pos \in {Pos(c, getHomeRow(s.currentPlayer)) : c \in 0..(GRID_COLS - 1)} :
     canDeploy(s, s.currentPlayer, pos)}

\* the units of the current player on a square
myUnits(s, pos) == SelectSeq(s.grid[pos], LAMBDA u : u.owner = s.currentPlayer)

\* the selections the 'selectGrid' case builds by toggling units of the
\* current player: one unit, or two in either order, with the squares they
\* stand on
SelectionsIn(s) ==
  LET mine == UNION { {[id |-> u.id, at |-> p] : u \in Range(myUnits(s, p))} :
                      p \in Squares }
  IN {Selection(<<a.id>>, <<a.at>>) : a \in mine}
     \cup {Selection(<<pair[1].id, pair[2].id>>,
                     IF pair[1].at = pair[2].at THEN <<pair[1].at>>
                     ELSE <<pair[1].at, pair[2].at>>) :
             pair \in {q \in mine \X mine : q[1].id # q[2].id}}

\* ------------------------------------------- the game as handleAction plays it
\* the scenarios of the scenario screen
ScenariosIn == {Army, ArtilleryArmy}

\* the armies in contact after player 1 has destroyed the infantry of
\* player 2 and its cavalry has closed in on (0,2), player 1 to move
LastStand ==
  LET a == confirmHandoff(Contact)
      unitIds == [given |-> TRUE, ids |-> <<1, 2>>]
      b == CHOOSE after \in {r.state : r \in attackSquare(a, <<Pos(0, 1)>>, Pos(0, 2), unitIds)} :
             \A p \in Squares : ~HasUnit(after.grid[p], 3)
      c == moveUnit(confirmHandoff(endTurn(b)), 4, Pos(0, 3), Pos(0, 2))
  IN endTurn(c)

\* the infantry of player 2 has marched down the first column to (0,1),
\* next to the home row of player 1, whose infantry stands on (1,0) and
\* whose cavalry is still in reserve; player 1 to move
Ambush ==
  LET a == deployUnit(Opening, 1, Pos(1, 0))
      b == deployUnit(endTurn(a), 3, Pos(0, 3))
      c == moveUnit(pass(b), 3, Pos(0, 3), Pos(0, 2))
      d == moveUnit(pass(c), 3, Pos(0, 2), Pos(0, 1))
  IN endTurn(d)

\* the program as it starts, on the scenario screen, and states of play
\* between two turns
GameStates ==
  {createInitialState(NoScenario), Deployed, Contact, Battery, LastStand, Ambush}

InitGame ==
  /\ state \in GameStates
  /\ last = Called("init", state, state, NoResult)
  /\ steps = 0

\* a tap on a scenario of the scenario screen
SelectScenario ==
  \E army \in ScenariosIn :
    /\ steps < MaxSteps
    /\ state.phase = "scenario-select"
    /\ state' = clearSelection(createInitialState(army))
    /\ last' = Called("createInitialState", state, state', NoResult)
    /\ steps' = steps + 1

\* a tap after the game is over
Restart ==
  /\ steps < MaxSteps
  /\ state.phase = "game-over"
  /\ state' = clearSelection(createInitialState(NoScenario))
  /\ last' = Called("restart", state, state', NoResult)
  /\ steps' = steps + 1

\* a tap on the handoff screen
ConfirmHandoff ==
  /\ state.phase = "handoff"
  /\ state' = clearSelection(confirmHandoff(state))
  /\ last' = Called("confirmHandoff", state, state', NoResult)
  /\ UNCHANGED steps

\* a tap that selects units of the current player, or one that clears the
\* selection
Select ==
  /\ state.phase = "playing"
  /\ \/ \E sel \in SelectionsIn(state) :
          state' = [state EXCEPT !.selectedSquare = sel.squares[1]]
     \/ state' = clearSelection(state)
  /\ state' # state
  /\ last' = Called("select", state, state', NoResult)
  /\ UNCHANGED steps

\* 'selectReserve' on a unit of the reserve, then 'selectGrid' on one of
\* the squares offered
Deploy ==
  \E pos \in Squares :
    LET reserve == getReserve(state, state.currentPlayer) IN
    /\ steps < MaxSteps
    /\ state.phase = "playing"
    /\ state.actionPoints > 0
    /\ \E i \in 1..Len(reserve) :
         /\ pos \in deployTargets(state)
         /\ state' = winCheck(clearSelection(deployUnit(state, reserve[i].id, pos)))
    /\ last' = Called("deployUnit", state, state', NoResult)
    /\ steps' = steps + 1

\* 'selectGrid' on a destination of the units selected on one square, not
\* on a unit of the current player standing there
Move ==
  \E sel \in SelectionsIn(state), pos \in Squares :
    /\ steps < MaxSteps
    /\ state.phase = "playing"
    /\ state.selectedSquare = sel.squares[1]
    /\ Len(sel.squares) = 1
    /\ pos \in recalcMoves(state, sel)
    /\ state' = clearSelection(
                  IF Len(sel.unitIds) = 1
                  THEN moveUnit(state, sel.unitIds[1], sel.squares[1], pos)
                  ELSE moveUnits(state, sel.unitIds, sel.squares[1], pos))
    /\ last' = Called("moveUnit", state, state', NoResult)
    /\ steps' = steps + 1

\* 'selectGrid' on a target of the selected units that is no destination
\* of theirs, or on a unit of the current player standing on the target
Attack ==
  \E sel \in SelectionsIn(state), pos \in Squares :
    /\ steps < MaxSteps
    /\ state.phase = "playing"
    /\ state.selectedSquare = sel.squares[1]
    /\ pos \in recalcAttacks(state, sel)
    /\ \/ Len(sel.squares) # 1
       \/ pos \notin recalcMoves(state, sel)
       \/ myUnits(state, pos) # <<>>
    /\ \E r \in attackSquare(state, sel.squares, pos, [given |-> TRUE, ids |-> sel.unitIds]) :
         /\ state' = winCheck(clearSelection(r.state))
         /\ last' = Called("attackSquare", state, state', r.attackResult)
    /\ steps' = steps + 1

\* the 'endTurn' case
GameEndTurn ==
  /\ steps < MaxSteps
  /\ state.phase = "playing"
  /\ state' = clearSelection(endTurn(state))
  /\ last' = Called("endTurn", state, state', NoResult)
  /\ steps' = steps + 1

\* the 'retreat' case
Retreat ==
  /\ steps < MaxSteps
  /\ state.phase = "playing"
  /\ state' = retreat(state)
  /\ last' = Called("retreat", state, state', NoResult)
  /\ steps' = steps + 1

NextGame ==
  \/ SelectScenario \/ Restart \/ ConfirmHandoff \/ Select
  \/ Deploy \/ Move \/ Attack \/ GameEndTurn \/ Retreat

SpecGame == InitGame /\ [][NextGame]_vars

\* C22: a tap on the handoff screen takes the phase from 'handoff' to
\* 'playing' and leaves board, reserves, unit flags, current player, action
\* points, turn number and winner as they were.
C22_ConfirmHandoffOnlyChangesPhase ==
  [][ last'.op = "confirmHandoff" =>
        /\ state.phase = "handoff" /\ state'.phase = "playing"
        /\ state'.grid = state.grid
        /\ state'.p1Reserve = state.p1Reserve /\ state'.p2Reserve = state.p2Reserve
        /\ state'.currentPlayer = state.currentPlayer
        /\ state'.actionPoints = state.actionPoints
        /\ state'.turnNumber = state.turnNumber
        /\ state'.winner = state.winner
        /\ state' = [state EXCEPT !.phase = "playing"] ]_vars

\* player 2 has taken over after a turn in which player 1 moved a unit
C22_Witness ==
  /\ last.op = "confirmHandoff" /\ state.phase = "playing"
  /\ state.currentPlayer = 2
  /\ \E u \in boardUnits(state) : u.owner = 1 /\ u.hasMoved

C26_InitialStateFromScenario ==
  last.op = "createInitialState" =>
    /\ DOMAIN state.grid = Squares /\ Cardinality(Squares) = 3 * 4
    /\ \A p \in Squares : state.grid[p] = <<>>
    /\ \E army \in ScenariosIn :
         /\ Len(state.p1Reserve) = Len(army) /\ Len(state.p2Reserve) = Len(army)
         /\ \A i \in 1..Len(army) :
              /\ state.p1Reserve[i].type = army[i].type
              /\ state.p1Reserve[i].level = army[i].level
              /\ state.p1Reserve[i].owner = 1
              /\ state.p2Reserve[i].type = army[i].type
              /\ state.p2Reserve[i].level = army[i].level
              /\ state.p2Reserve[i].owner = 2
    /\ LET reserves == state.p1Reserve \o state.p2Reserve
       IN /\ \A i, j \in 1..Len(reserves) : i # j => reserves[i].id # reserves[j].id
          /\ \A i \in 1..Len(reserves) :
               /\ ~reserves[i].hasMoved /\ ~reserves[i].hasAttacked
               /\ reserves[i].movedSquares = 0
    /\ state.currentPlayer = 1
    /\ state.actionPoints = 6 /\ state.maxActionPoints = 6
    /\ state.turnNumber = 1
    /\ state.phase = "playing"
    /\ state.winner = NoWinner
    /\ state.selectedSquare = NoSquare

\* the scenario with artillery has been picked on the scenario screen
C26_Witness ==
  /\ last.op = "createInitialState"
  /\ Len(state.p1Reserve) = 2 /\ state.p2Reserve[2].type = "artillery"

\* C27: while the phase is 'playing' or 'handoff' each player has a unit on
\* the board or in reserve; after an attack that leaves the opponent
\* without units the phase is 'game-over' and the attacker is the winner.
C27_BothPlayersHaveUnitsWhilePlaying ==
  /\ state.phase \in {"playing", "handoff"} =>
       hasUnits(state, 1) /\ hasUnits(state, 2)
  /\ (last.op \in {"attackSquare", "deployUnit"}
        /\ ~hasUnits(state, otherPlayer(state.currentPlayer))) =>
       state.phase = "game-over" /\ state.winner = state.currentPlayer

\* player 1 has destroyed the last unit of player 2
C27_Witness ==
  /\ last.op = "attackSquare"
  /\ ~hasUnits(state, 2) /\ hasUnits(state, 1)
  /\ state.phase = "game-over" /\ state.winner = 1

\* what C28 says stays as it is
standing(s) ==
  <<s.phase, s.winner, s.currentPlayer, s.grid, s.p1Reserve, s.p2Reserve>>

\* C28: once the phase is 'game-over', no deployUnit, moveUnit, moveUnits,
\* attackSquare, endTurn or confirmHandoff call changes phase, winner,
\* current player, board or reserves.
C28_GameOverIsTerminal ==
  state.phase = "game-over" =>
    /\ standing(endTurn(state)) = standing(state)
    /\ standing(confirmHandoff(state)) = standing(state)
    /\ \A unitId \in UnitIds, target \in PosIn :
         standing(deployUnit(state, unitId, target)) = standing(state)
    /\ \A unitId \in UnitIds, from \in PosIn, to \in PosIn :
         standing(moveUnit(state, unitId, from, to)) = standing(state)
    /\ \A unitIds \in GroupIn, from \in PosIn, to \in PosIn :
         standing(moveUnits(state, unitIds, from, to)) = standing(state)
    /\ \A fromSquares \in FromIn, target \in TargetIn, unitIds \in AttackIdsIn :
         \A r \in attackSquare(state, fromSquares, target, unitIds) :
           standing(r.state) = standing(state)

\* C29: no infantry or artillery unit on the board has both moved and
\* attacked since the flags of its owner were last reset, and for one that
\* has attacked the selection offers no destination.
C29_InfantryAndArtilleryMoveOrAttack ==
  \A p \in Squares : \A u \in Range(state.grid[p]) :
    u.type \in {"infantry", "artillery"} =>
      /\ ~(u.hasMoved /\ u.hasAttacked)
      /\ (u.hasAttacked /\ u.owner = state.currentPlayer)
           => recalcMoves(state, Selection(<<u.id>>, <<p>>)) = {}

\* a square cavalry may enter in one step: on the board, without units of
\* the other player, with room for it
legalStep(s, unit, pos) ==
  /\ isInBounds(pos)
  /\ ~hasEnemyUnits(s, pos, unit.owner)
  /\ canFitInSquare(s, pos, unit)

\* C30: a destination getValidMoves gives cavalry two steps away is reached
\* over an intermediate square that is itself a legal one-step destination.
C30_CavalryCannotJump ==
  \A from \in Squares : \A u \in Range(state.grid[from]) :
    u.type = "cavalry" =>
      \A to \in getValidMoves(state, u, from) :
        Abs(to.col - from.col) + Abs(to.row - from.row) = 2 =>
          \E mid \in Squares :
            /\ adjacent(from, mid) /\ adjacent(mid, to)
            /\ legalStep(state, u, mid)

\* ------------------------------------------------------------ more claims
\* the unitId arguments callers pass to getValidAttacks
AttackerIn == {NoUnit} \cup UnitIds

\* C31: the list getValidAttacks returns holds each square at most once,
\* never the source square, and only squares with a unit of the other
\* owner; it holds the enemy-occupied orthogonal neighbours when an
\* eligible infantry or cavalry stands on the source and the enemy-occupied
\* squares of the other rows of the source column when an eligible
\* artillery does, and no other square.
C31_AttackTargetsAreEnemySquaresInReach ==
  \A from \in Squares, unitId \in AttackerIn :
    LET targets == attackTargets(state, from, unitId)
        eligible == {u \in Range(state.grid[from]) :
                       canUnitAttack(u) /\ (unitId = NoUnit \/ u.id = unitId)}
        melee == \E a \in eligible : a.type \in {"infantry", "cavalry"}
        artillery == \E a \in eligible : a.type = "artillery"
        inReach(t) == \/ melee /\ adjacent(from, t)
                      \/ artillery /\ t.col = from.col /\ t.row # from.row
    IN /\ \A i, j \in 1..Len(targets) : i # j => targets[i] # targets[j]
       /\ \A i \in 1..Len(targets) :
            /\ targets[i] \in Squares /\ targets[i] # from
            /\ \E u \in Range(state.grid[targets[i]]) : \E a \in eligible : u.owner # a.owner
            /\ inReach(targets[i])
       /\ \A t \in Squares :
            (inReach(t) /\ \E u \in Range(state.grid[t]) : \A a \in eligible : u.owner # a.owner)
              => t \in Range(targets)

\* infantry and artillery on (0,0) with enemies on the next square of their
\* column and on the next column: each is listed once
C31_Witness ==
  /\ attackTargets(state, Pos(0, 0), NoUnit) = <<Pos(0, 1), Pos(1, 0)>>
  /\ \E u \in Range(state.grid[Pos(0, 0)]) : u.type = "artillery" /\ canUnitAttack(u)
  /\ \E u \in Range(state.grid[Pos(0, 0)]) : u.type = "infantry" /\ canUnitAttack(u)

\* C32: every entry distributeDamage returns belongs to one defender, no two
\* to the same; its damage is at least 1 and at most the level of that
\* defender, and it is marked destroyed exactly when the damage equals the
\* level.
C32_DamageWithinLevel ==
  steps = 1 =>
    /\ \A i, j \in 1..Len(last) : i # j => last[i].unitId # last[j].unitId
    /\ \A i \in 1..Len(last) :
         \E k \in 1..Len(state.defenders) :
           /\ state.defenders[k].id = last[i].unitId
           /\ last[i].damage >= 1
           /\ last[i].damage <= state.defenders[k].level
           /\ last[i].destroyed <=> (last[i].damage = state.defenders[k].level)

\* of three defenders one is destroyed, one is damaged and stands, one is
\* not hit and has no entry
C32_Witness ==
  /\ steps = 1
  /\ Len(state.defenders) = 3 /\ Len(last) = 2
  /\ \E i \in 1..Len(last) : last[i].destroyed
  /\ \E i \in 1..Len(last) : ~last[i].destroyed

\* the board unit of that id
unitOf(s, unitId) == CHOOSE u \in boardUnits(s) : u.id = unitId

\* after the move of the units moved over distance squares, these have
\* hasMoved = TRUE and movedSquares = distance, of the range of their type,
\* and every other unit of the board is as it was
movedAsClaimed(s, after, moved, distance) ==
  /\ \A unitId \in moved :
       \E u \in boardUnits(after) :
         /\ u.id = unitId
         /\ u.hasMoved /\ u.movedSquares = distance
         /\ u.type \in {"infantry", "artillery"} => distance = 1
         /\ u.type = "cavalry" => distance \in {1, 2}
  /\ \A u \in boardUnits(s) : u.id \notin moved => u \in boardUnits(after)
  /\ \A u \in boardUnits(after) : u.id \notin moved => u \in boardUnits(s)

\* C33: a moveUnit call, or a moveUnits call, with action points left that
\* takes units standing on the source square to a destination the movement
\* evaluator gives them sets hasMoved = TRUE and movedSquares = the
\* Manhattan distance of source and destination on each of them and on no
\* other unit; the distance is 1 for infantry and artillery and 1 or 2 for
\* cavalry.
C33_MovedUnitsAreMarked ==
  \A from \in Squares, to \in Squares :
    LET distance == Abs(to.col - from.col) + Abs(to.row - from.row) IN
    state.actionPoints > 0 =>
      /\ \A u \in Range(state.grid[from]) :
           to \in getValidMoves(state, u, from) =>
             movedAsClaimed(state, moveUnit(state, u.id, from, to), {u.id}, distance)
      /\ \A unitIds \in GroupIn :
           (/\ \A i \in 1..Len(unitIds) : HasUnit(state.grid[from], unitIds[i])
            /\ to \in getValidGroupMoves(
                        state, [i \in 1..Len(unitIds) |-> FindUnit(state.grid[from], unitIds[i])],
                        from))
           => movedAsClaimed(state, moveUnits(state, unitIds, from, to),
                             Range(unitIds), distance)

\* the cavalry of player 1 has moved two squares up its column
C33_Witness ==
  /\ last.op = "moveUnit" /\ ~last.same
  /\ \E u \in Range(state.grid[Pos(0, 3)]) :
       u.id = 2 /\ u.type = "cavalry" /\ u.hasMoved /\ u.movedSquares = 2

\* C34: cavalry of the player to move that was deployed this turn
\* (hasMoved, movedSquares = 0, not yet attacked) has every enemy-occupied
\* neighbour of its square among its targets, and its attack on one rolls
\* its dice, sets its hasAttacked and brings no cavalry-charge bonus.
C34_DeployedCavalryAttacksWithoutCharge ==
  \A from \in Squares : \A u \in Range(state.grid[from]) :
    (/\ u.type = "cavalry" /\ u.owner = state.currentPlayer
     /\ u.hasMoved /\ u.movedSquares = 0 /\ ~u.hasAttacked
     /\ state.phase = "playing" /\ state.actionPoints > 0)
    => \A target \in Squares :
         (adjacent(from, target) /\ hasEnemyUnits(state, target, u.owner)) =>
           /\ target \in recalcAttacks(state, Selection(<<u.id>>, <<from>>))
           /\ \A r \in attackSquare(state, <<from>>, target,
                                    [given |-> TRUE, ids |-> <<u.id>>]) :
                /\ r.attackResult.totalDice = u.level
                /\ r.attackResult.hasMelee
                /\ \A i \in 1..Len(r.attackResult.bonuses) :
                     r.attackResult.bonuses[i] # "cavalry-charge"
                /\ \E v \in Range(r.state.grid[from]) : v.id = u.id /\ v.hasAttacked

\* the cavalry of player 1, deployed on (0,0) this turn, has attacked the
\* infantry of player 2 on (0,1)
C34_Witness ==
  /\ last.op = "attackSquare"
  /\ last.result.totalDice = 2 /\ last.result.bonuses = <<>>
  /\ \E u \in Range(state.grid[Pos(0, 0)]) :
       u.id = 2 /\ u.type = "cavalry" /\ u.hasMoved /\ u.movedSquares = 0 /\ u.hasAttacked

\* the places of a unit id: squares and reserves, with the index in each
places(s, unitId) ==
  UNION { {<<p, i>> : i \in {k \in 1..Len(s.grid[p]) : s.grid[p][k].id = unitId}} :
          p \in Squares }
  \cup {<<1, i>> : i \in {k \in 1..Len(s.p1Reserve) : s.p1Reserve[k].id = unitId}}
  \cup {<<2, i>> : i \in {k \in 1..Len(s.p2Reserve) : s.p2Reserve[k].id = unitId}}

\* id, type and owner of a set of units
identities(units) == {[id |-> u.id, type |-> u.type, owner |-> u.owner] : u \in units}

sameButAttacked(before, after) ==
  /\ [after EXCEPT !.hasAttacked = before.hasAttacked] = before
  /\ before.hasAttacked => after.hasAttacked

\* the units of a square are as before, one by one in their order, but for
\* hasAttacked flags that have been set
squareButAttacked(before, after) ==
  /\ Len(after) = Len(before)
  /\ \A i \in 1..Len(before) : sameButAttacked(before[i], after[i])

\* C36: an attackSquare call leaves both reserves, current player, phase,
\* turn number, winner and selection as they were and takes 1 action point
\* or none; on every square but the target the units stay, in their order,
\* with at most a hasAttacked flag set; on the target the units of the
\* current player stay likewise, and each unit of the opponent left there
\* was there before and differs at most by a lower level.
C36_AttackTouchesFlagsAndDefendersOnly ==
  \A fromSquares \in FromIn, target \in TargetIn, unitIds \in AttackIdsIn :
    \A r \in attackSquare(state, fromSquares, target, unitIds) :
      LET after == r.state
          mine(units) == SelectSeq(units, LAMBDA u : u.owner = state.currentPlayer)
          theirs(units) == SelectSeq(units, LAMBDA u : u.owner # state.currentPlayer)
      IN /\ [after EXCEPT !.grid = state.grid, !.actionPoints = state.actionPoints] = state
         /\ after.actionPoints \in {state.actionPoints, state.actionPoints - 1}
         /\ \A p \in Squares :
              IF p = target
              THEN /\ squareButAttacked(mine(state.grid[p]), mine(after.grid[p]))
                   /\ \A v \in Range(theirs(after.grid[p])) :
                        \E u \in Range(theirs(state.grid[p])) :
                          /\ u.id = v.id
                          /\ 1 <= v.level /\ v.level <= u.level
                          /\ sameButAttacked([u EXCEPT !.level = v.level], v)
              ELSE squareButAttacked(state.grid[p], after.grid[p])

\* an attack of the player to move has hit: the attacker is flagged and
\* the cavalry of the opponent is down to level 1, on its square
C36_Witness ==
  /\ last.op = "attackSquare" /\ last.result.hits >= 1
  /\ \E u \in boardUnits(state) : u.owner = state.currentPlayer /\ u.hasAttacked
  /\ \E v \in boardUnits(state) :
       v.owner # state.currentPlayer /\ v.type = "cavalry" /\ v.level = 1

\* C37: a moveUnit call that names a unit of the opponent of the current
\* player, and a moveUnits call that names one among its units, return the
\* state unchanged, action points included.
C37_OnlyOwnUnitsAreMoved ==
  \A from \in PosIn \cap Squares, to \in PosIn :
    /\ \A u \in Range(state.grid[from]) :
         u.owner # state.currentPlayer => moveUnit(state, u.id, from, to) = state
    /\ \A unitIds \in GroupIn :
         (\E i \in 1..Len(unitIds) :
            \E u \in Range(state.grid[from]) :
              u.id = unitIds[i] /\ u.owner # state.currentPlayer)
         => moveUnits(state, unitIds, from, to) = state

\* C38: actionPoints stays within 0..maxActionPoints, and maxActionPoints
\* is 6; every deployUnit, moveUnit, moveUnits or attackSquare call that
\* changes the state takes exactly 1 action point, and only endTurn gives
\* points back, up to maxActionPoints: so a player performs at most 6 such
\* actions between two endTurn calls.
C38_ActionPointsWithinBudget ==
  [][ /\ 0 <= state.actionPoints /\ state.actionPoints <= state.maxActionPoints
      /\ 0 <= state'.actionPoints /\ state'.actionPoints <= state'.maxActionPoints
      /\ state'.maxActionPoints = 6
      /\ (last'.op \in ActionOps /\ ~last'.same) =>
           state'.actionPoints = state.actionPoints - 1
      /\ last'.op = "endTurn" => state'.actionPoints = state'.maxActionPoints
      /\ state'.actionPoints > state.actionPoints => last'.op = "endTurn"
    ]_vars

\* the player to move has spent the last of the 6 action points
C38_Witness ==
  /\ last.op \in ActionOps /\ ~last.same
  /\ state.actionPoints = 0 /\ state.maxActionPoints = 6

\* C39: in the game as handleAction plays it the phase is 'game-over'
\* exactly when the winner is set.
C39_GameOverIffWinner ==
  (state.phase = "game-over") <=> (state.winner # NoWinner)

\* player 2 has retreated: the game is over and player 1 has won
C39_Witness ==
  /\ last.op = "retreat" /\ state.currentPlayer = 2
  /\ state.phase = "game-over" /\ state.winner = 1

\* the phase changes of the game
PhaseChanges ==
  { <<"scenario-select", "playing", "createInitialState">>,
    <<"playing", "handoff", "endTurn">>,
    <<"handoff", "playing", "confirmHandoff">>,
    <<"playing", "game-over", "deployUnit">>,
    <<"playing", "game-over", "attackSquare">>,
    <<"playing", "game-over", "retreat">>,
    <<"game-over", "scenario-select", "restart">> }

====
